---- MODULE Spec2Model ----
(***************************************************************************)
(* Beam-search decoding of the `generate` command of ocrd_keraslm          *)
(* (ocrd_keraslm/scripts/run.py, lines 105-149).                           *)
(*                                                                         *)
(* Python sequences are 0-based, TLA+ sequences 1-based: position j of a   *)
(* Python list is position j+1 here.  Python's None (as a model state) is  *)
(* the empty history <<>>; every state the oracle returns is non-empty.    *)
(* Probabilities are numerators over PDenom; costs are -ln(p) in           *)
(* thousandths (numpy.log is the natural logarithm).                        *)
(***************************************************************************)
EXTENDS Integers, Sequences, FiniteSets, TLC

(* ------------------------------ bounds --------------------------------- *)
\* longest CONTEXT argument enumerated
MaxContextLen == 3
\* largest valid --number enumerated
MaxNumber == 2
\* widths enumerated for the slice next_fringe[:256]; the source fixes the
\* width at 256 (run.py:146), the model ranges over 1..MaxBeamWidth so that
\* the truncation acts on frontiers of a few nodes
MaxBeamWidth == 2
\* width of the slice argsort(pred)[-10:]; the source fixes 10 (run.py:137)
TopK == 2

(* ------------------------- program constants --------------------------- *)
\* click.IntRange(min=1, max=10000) of --number
NumberMin == 1
NumberMax == 10000

(* ------------------------------ alphabet ------------------------------- *)
\* denominator of the probabilities in pred: 1/256 is 250/PDenom and
\* 0.004 is 256/PDenom
PDenom == 64000

\* rater.mapping[1]: output index -> character; index 0 has no character
mapping1 == (1 :> "a") @@ (2 :> "b")
\* rater.mapping[0]: character -> index
mapping0 == [c \in {mapping1[s] : s \in DOMAIN mapping1} |->
               CHOOSE s \in DOMAIN mapping1 : mapping1[s] = c]
\* the oracle's known alphabet
Alphabet == DOMAIN mapping0
\* a character the oracle has no index for
Unmapped == "x"
\* characters a CONTEXT argument is made of
Chars == Alphabet \cup {Unmapped}
\* positions of a distribution vector returned by the oracle
Indices == 0..2

\* Python's None as a model state
None == <<>>

Dist(p0, p1, p2) == (0 :> p0) @@ (1 :> p1) @@ (2 :> p2)
\* distributions a trained oracle may return (each sums to PDenom)
Dists == { Dist(0, 32000, 32000),      \* two equally likely characters
           Dist(0, 63748, 252),        \* 1/256 < p(b) < 0.004
           Dist(63744, 128, 128),      \* only the unmapped index above the floor
           Dist(0, 16000, 48000),      \* b likelier than a
           Dist(32000, 24000, 8000) }  \* unmapped index on top, b ranked third
\* distributions enumerated for input index 0, which a character without an
\* index is read as
PadDists == { Dist(0, 32000, 32000), Dist(63744, 128, 128) }

Min(x, y) == IF x < y THEN x ELSE y

\* CONTEXT strings up to MaxContextLen characters
Contexts == UNION { [1..n -> Chars] : n \in 0..MaxContextLen }

VARIABLES
  oracle,          \* the trained model: input index -> distribution
  context,         \* CONTEXT argument
  number,          \* --number option
  beam_width,      \* width of the slice at run.py:146
  pc,              \* position in generate
  exception,       \* exception that ended the call, or "none"
  i,               \* warm-up position, then iteration count of the beam loop
  j,               \* batch position of the expansion loop
  context_states,  \* run.py:123
  nodes,           \* every lib.Node constructed, in construction order
  fringe,          \* run.py:132, ids into nodes
  next_fringe,     \* run.py:127/134/146, ids into nodes
  preds,           \* run.py:133
  states,          \* run.py:133
  stdout,          \* lines written by click.echo
  queries,         \* log of the rater.predict calls
  step_base,       \* Len(nodes) when the current iteration began
  expansion,       \* what the last expansion of a frontier node did
  starved          \* some iteration left next_fringe empty

vars == <<oracle, context, number, beam_width, pc, exception, i, j,
          context_states, nodes, fringe, next_fringe, preds, states, stdout,
          queries, step_base, expansion, starved>>

(* ------------------------------ lib.Node -------------------------------- *)
\* lib.Node(parent, state, value, cost): parent is an id into ns, 0 for None
Node(ns, parent, state, value, cost) ==
  [parent |-> parent, state |-> state, value |-> value, cost |-> cost,
   cum_cost |-> IF parent = 0 THEN cost ELSE ns[parent].cum_cost + cost]

\* Node ordering used by insort_left: by cumulative cost
Lt(ns, n1, n2) == ns[n1].cum_cost < ns[n2].cum_cost

RECURSIVE to_sequence(_, _)
\* characters from the root to node n inclusive
to_sequence(ns, n) ==
  IF ns[n].parent = 0 THEN <<ns[n].value>>
  ELSE Append(to_sequence(ns, ns[n].parent), ns[n].value)

(* --------------------------- rater.predict ------------------------------ *)
\* index the oracle reads a character as; a character without an index is
\* read as index 0 when the oracle does not reject it
InputIndex(c) == IF c \in DOMAIN mapping0 THEN mapping0[c] ELSE 0

\* state the oracle returns after reading character c in state s
NextState(s, c) == Append(s, c)

\* rater.predict(chars, sts): one distribution and one new state per position
predict(chars, sts) ==
  [preds  |-> [k \in 1..Len(chars) |-> oracle[InputIndex(chars[k])]],
   states |-> [k \in 1..Len(chars) |-> NextState(sts[k], chars[k])]]

\* batches on which the oracle's behaviour is not fixed by its contract: an
\* empty batch, or a character without an index; predict may raise on them
PredictMayRaise(chars) ==
  chars = <<>> \/ \E k \in 1..Len(chars) : chars[k] \notin DOMAIN mapping0

Query(chars, sts) ==
  [chars |-> chars, states |-> sts, returned |-> predict(chars, sts).states]

(* --------------------------- pure helpers ------------------------------- *)
\* -numpy.log(p / PDenom) in thousandths, for the probabilities in Dists
NegLog(p) ==
  CASE p = 64000 -> 0
    [] p = 63748 -> 4
    [] p = 63744 -> 4
    [] p = 48000 -> 288
    [] p = 32000 -> 693
    [] p = 24000 -> 981
    [] p = 16000 -> 1386
    [] p = 8000  -> 2079
    [] p = 252   -> 5537
    [] p = 128   -> 6215
    [] OTHER     -> 1000000   \* numpy.log(0) = -inf

\* click.IntRange(min=1, max=10000)
ValidNumberLax(n) == n >= 0 /\ n <= NumberMax
ValidNumber(n) == n >= NumberMin /\ n <= NumberMax

\* context[:-1]
ContextPrefixWhole(c) == c
ContextPrefix(c) == SubSeq(c, 1, Len(c) - 1)

\* range(0, number): the loop body runs while the count is below number
LoopRunsOneMore(count, n) == count < n + 1
LoopRuns(count, n) == count < n

\* results of numpy.argsort(pred): the indices in ascending order of
\* probability; the order among equal probabilities depends on the sort
ArgsortOrders(pred) ==
  { o \in [1..Cardinality(Indices) -> Indices] :
      /\ \A a, b \in DOMAIN o : a # b => o[a] # o[b]
      /\ \A a, b \in DOMAIN o : a < b => pred[o[a]] <= pred[o[b]] }

\* order[-10:]
LowestK(order) == SubSeq(order, 1, Min(TopK, Len(order)))
BestK(order) ==
  SubSeq(order, Len(order) - Min(TopK, Len(order)) + 1, Len(order))

\* p / PDenom >= 0.004
AtLeastFloor(p) == p * 1000 >= 4 * PDenom

RECURSIVE searchsorted(_, _)
\* numpy.searchsorted(pred[pred_best], 0.004): number of leading entries
\* of the ascending pred_best whose probability is below 0.004
searchsorted(pred, pred_best) ==
  IF pred_best = <<>> \/ AtLeastFloor(pred[Head(pred_best)]) THEN 0
  ELSE 1 + searchsorted(pred, Tail(pred_best))

\* pred_best[searchsorted(...):]
AboveFloor(pred, pred_best) ==
  SubSeq(pred_best, searchsorted(pred, pred_best) + 1, Len(pred_best))

RECURSIVE bisect_left(_, _, _, _, _)
\* bisect.bisect_left(a, x, lo, hi), positions 0-based
bisect_left(ns, a, x, lo, hi) ==
  IF lo < hi
  THEN LET mid == (lo + hi) \div 2
       IN IF Lt(ns, a[mid + 1], x) THEN bisect_left(ns, a, x, mid + 1, hi)
                                   ELSE bisect_left(ns, a, x, lo, mid)
  ELSE lo

RECURSIVE bisect_right(_, _, _, _, _)
bisect_right(ns, a, x, lo, hi) ==
  IF lo < hi
  THEN LET mid == (lo + hi) \div 2
       IN IF Lt(ns, x, a[mid + 1]) THEN bisect_right(ns, a, x, lo, mid)
                                   ELSE bisect_right(ns, a, x, mid + 1, hi)
  ELSE lo

InsertAt(a, x, lo) == SubSeq(a, 1, lo) \o <<x>> \o SubSeq(a, lo + 1, Len(a))

insort_right(ns, a, x) == InsertAt(a, x, bisect_right(ns, a, x, 0, Len(a)))
\* bisect.insort_left(a, x)
insort_left(ns, a, x) == InsertAt(a, x, bisect_left(ns, a, x, 0, Len(a)))

\* lines 142-144: the character of an alternative, none when the index is
\* not in rater.mapping[1]
AlternativeOrDefault(best) ==
  IF best \notin DOMAIN mapping1 THEN <<Unmapped>> ELSE <<mapping1[best]>>
Alternative(best) ==
  IF best \notin DOMAIN mapping1 THEN <<>> ELSE <<mapping1[best]>>

\* state = states[j]
StateOfFirst(sts, k) == sts[1]
StateOf(sts, k) == sts[k]

RECURSIVE FollowUp(_, _, _, _, _, _)
\* lines 141-145: follow up on the best predictions of node n
FollowUp(pred_best, pred, n, state, ns, nf) ==
  IF pred_best = <<>>
  THEN [nodes |-> ns, next_fringe |-> nf, inserted |-> {}]
  ELSE LET best == Head(pred_best)
           alt  == Alternative(best)
       IN IF alt = <<>>
          THEN FollowUp(Tail(pred_best), pred, n, state, ns, nf)
          ELSE LET n_new == Node(ns, n, state, alt[1], NegLog(pred[best]))
                   ns2   == Append(ns, n_new)
                   r     == FollowUp(Tail(pred_best), pred, n, state, ns2,
                                     insort_left(ns2, nf, Len(ns2)))
               IN [r EXCEPT !.inserted = @ \cup {best}]

\* next_fringe[:256]
KeepAll(nf, width) == nf
Keep(nf, width) == SubSeq(nf, 1, Min(width, Len(nf)))

\* lines 147-149: next_fringe[0] raises IndexError on an empty list
FinalLenient(nf, ns, c) ==
  IF nf = <<>>
  THEN [pc |-> "done", exception |-> "none", echo |-> <<ContextPrefix(c)>>]
  ELSE [pc |-> "done", exception |-> "none",
        echo |-> <<ContextPrefix(c) \o to_sequence(ns, nf[1])>>]
Final(nf, ns, c) ==
  IF nf = <<>>
  THEN [pc |-> "error", exception |-> "IndexError", echo |-> <<>>]
  ELSE [pc |-> "done", exception |-> "none",
        echo |-> <<ContextPrefix(c) \o to_sequence(ns, nf[1])>>]

NoExpansion == [done |-> FALSE, node |-> 0, pred |-> Dist(0, 0, 0),
                top |-> {}, inserted |-> {}]

(* ------------------------------- Init ----------------------------------- *)
Init ==
  /\ oracle \in { o \in [Indices -> Dists] : o[0] \in PadDists }
  /\ context \in Contexts
  /\ number \in (0..MaxNumber) \cup {NumberMax + 1}
  /\ beam_width \in 1..MaxBeamWidth
  /\ pc = "start"
  /\ exception = "none"
  /\ i = 0
  /\ j = 0
  /\ context_states = <<None>>
  /\ nodes = <<>>
  /\ fringe = <<>>
  /\ next_fringe = <<>>
  /\ preds = <<>>
  /\ states = <<>>
  /\ stdout = <<>>
  /\ queries = <<>>
  /\ step_base = 0
  /\ expansion = NoExpansion
  /\ starved = FALSE

(* ------------------------------ actions --------------------------------- *)
Raise(e) ==
  /\ pc' = "error"
  /\ exception' = e

\* lines 108, 111-123: option parsing accepts --number, model loaded
Enter ==
  /\ pc = "start"
  /\ ValidNumber(number)
  /\ pc' = "warmup"
  /\ UNCHANGED <<oracle, context, number, beam_width, exception, i, j,
                 context_states, nodes, fringe, next_fringe, preds, states,
                 stdout, queries, step_base, expansion, starved>>

\* line 108: click.IntRange rejects --number before generate is entered
RejectNumber ==
  /\ pc = "start"
  /\ ~ValidNumber(number)
  /\ Raise("UsageError")
  /\ UNCHANGED <<oracle, context, number, beam_width, i, j, context_states,
                 nodes, fringe, next_fringe, preds, states, stdout, queries,
                 step_base, expansion, starved>>

\* lines 125-126: one warm-up query
WarmUp ==
  /\ pc = "warmup"
  /\ i < Len(ContextPrefix(context))
  /\ LET char == ContextPrefix(context)[i + 1]
         r    == predict(<<char>>, context_states)
     IN /\ context_states' = r.states
        /\ queries' = Append(queries, Query(<<char>>, context_states))
  /\ i' = i + 1
  /\ UNCHANGED <<oracle, context, number, beam_width, pc, exception, j,
                 nodes, fringe, next_fringe, preds, states, stdout,
                 step_base, expansion, starved>>

\* line 126: the oracle raises on a character it has no index for
WarmUpRaises ==
  /\ pc = "warmup"
  /\ i < Len(ContextPrefix(context))
  /\ PredictMayRaise(<<ContextPrefix(context)[i + 1]>>)
  /\ Raise("PredictError")
  /\ UNCHANGED <<oracle, context, number, beam_width, i, j, context_states,
                 nodes, fringe, next_fringe, preds, states, stdout, queries,
                 step_base, expansion, starved>>

\* lines 127-129: the root node
Seed ==
  /\ pc = "warmup"
  /\ ~(i < Len(ContextPrefix(context)))
  /\ context # <<>>
  /\ nodes' = <<Node(nodes, 0, context_states[1], context[Len(context)], 0)>>
  /\ next_fringe' = <<1>>
  /\ pc' = "loop"
  /\ i' = 0
  /\ UNCHANGED <<oracle, context, number, beam_width, exception, j,
                 context_states, fringe, preds, states, stdout, queries,
                 step_base, expansion, starved>>

\* line 128: context[-1] of the empty string raises IndexError
SeedRaises ==
  /\ pc = "warmup"
  /\ ~(i < Len(ContextPrefix(context)))
  /\ context = <<>>
  /\ Raise("IndexError")
  /\ UNCHANGED <<oracle, context, number, beam_width, i, j, context_states,
                 nodes, fringe, next_fringe, preds, states, stdout, queries,
                 step_base, expansion, starved>>

\* lines 131-134: batch query for the whole frontier
Step ==
  /\ pc = "loop"
  /\ LoopRuns(i, number)
  /\ fringe' = next_fringe
  /\ LET chars == [k \in 1..Len(next_fringe) |-> nodes[next_fringe[k]].value]
         sts   == [k \in 1..Len(next_fringe) |-> nodes[next_fringe[k]].state]
         r     == predict(chars, sts)
     IN /\ preds' = r.preds
        /\ states' = r.states
        /\ queries' = Append(queries, Query(chars, sts))
  /\ next_fringe' = <<>>
  /\ j' = 1
  /\ step_base' = Len(nodes)
  /\ pc' = "expand"
  /\ UNCHANGED <<oracle, context, number, beam_width, exception, i,
                 context_states, nodes, stdout, expansion, starved>>

\* line 133: the oracle raises on the batch
StepRaises ==
  /\ pc = "loop"
  /\ LoopRuns(i, number)
  /\ PredictMayRaise([k \in 1..Len(next_fringe) |-> nodes[next_fringe[k]].value])
  /\ Raise("PredictError")
  /\ UNCHANGED <<oracle, context, number, beam_width, i, j, context_states,
                 nodes, fringe, next_fringe, preds, states, stdout, queries,
                 step_base, expansion, starved>>

\* lines 135-145: expansion of the frontier node at batch position j
Expand ==
  /\ pc = "expand"
  /\ j <= Len(fringe)
  /\ \E order \in ArgsortOrders(preds[j]) :
       LET n         == fringe[j]
           pred      == preds[j]
           top       == BestK(order)
           pred_best == AboveFloor(pred, top)
           state     == StateOf(states, j)
           r         == FollowUp(pred_best, pred, n, state, nodes, next_fringe)
       IN /\ nodes' = r.nodes
          /\ next_fringe' = r.next_fringe
          /\ expansion' = [done |-> TRUE, node |-> n, pred |-> pred,
                           top |-> {top[k] : k \in DOMAIN top},
                           inserted |-> r.inserted]
  /\ j' = j + 1
  /\ UNCHANGED <<oracle, context, number, beam_width, pc, exception, i,
                 context_states, fringe, preds, states, stdout, queries,
                 step_base, starved>>

\* line 146: keep the best paths, next iteration
Truncate ==
  /\ pc = "expand"
  /\ j > Len(fringe)
  /\ next_fringe' = Keep(next_fringe, beam_width)
  /\ starved' = (starved \/ next_fringe = <<>>)
  /\ i' = i + 1
  /\ pc' = "loop"
  /\ UNCHANGED <<oracle, context, number, beam_width, exception, j,
                 context_states, nodes, fringe, preds, states, stdout,
                 queries, step_base, expansion>>

\* lines 147-149: best path echoed
Finish ==
  /\ pc = "loop"
  /\ ~LoopRuns(i, number)
  /\ LET f == Final(next_fringe, nodes, context)
     IN /\ pc' = f.pc
        /\ exception' = f.exception
        /\ stdout' = stdout \o f.echo
  /\ UNCHANGED <<oracle, context, number, beam_width, i, j, context_states,
                 nodes, fringe, next_fringe, preds, states, queries,
                 step_base, expansion, starved>>

Next ==
  \/ Enter
  \/ RejectNumber
  \/ WarmUp
  \/ WarmUpRaises
  \/ Seed
  \/ SeedRaises
  \/ Step
  \/ StepRaises
  \/ Expand
  \/ Truncate
  \/ Finish

Spec == Init /\ [][Next]_vars

(* ------------------------- derived notions ------------------------------ *)
\* the line echoed by a successful call
Output == stdout[1]

\* characters of the best path after the seed character
Generated == SubSeq(Output, Len(context) + 1, Len(Output))

RECURSIVE OracleState(_)
\* state of the oracle after reading seq from the start state
OracleState(seq) ==
  IF seq = <<>> THEN None
  ELSE NextState(OracleState(SubSeq(seq, 1, Len(seq) - 1)), seq[Len(seq)])

\* distribution the oracle returns for character c read in state s
OracleDist(c, s) == predict(<<c>>, <<s>>).preds[1]

\* root path of node n without the node's own character
PathBefore(n) ==
  LET path == to_sequence(nodes, n) IN SubSeq(path, 1, Len(path) - 1)

\* nodes constructed in the current iteration of the beam loop
StepCandidates == (step_base + 1)..Len(nodes)

\* highest probability a distribution gives to an index with a character
BestMapped(d) ==
  CHOOSE p \in {d[s] : s \in DOMAIN mapping1} :
    \A s \in DOMAIN mapping1 : d[s] <= p

(* ------------------------------- C1 ------------------------------------- *)
\* C1 (as stated): a successful call echoes exactly len(context) - 1 + number
\* characters.
C1_LengthAsStated ==
  pc = "done" => Len(Output) = Len(context) - 1 + number

\* C1 (amended): a successful call echoes exactly one line, made of the
\* context without its last character followed by the best path, which starts
\* with the seed character and has number further characters, so the line has
\* len(context) + number characters.
C1_OutputLength ==
  pc = "done" =>
    /\ Len(stdout) = 1
    /\ Output = ContextPrefix(context) \o to_sequence(nodes, next_fringe[1])
    /\ SubSeq(Output, 1, Len(context)) = context
    /\ Len(Output) = Len(context) + number

C1_Witness == pc = "done" /\ Len(context) >= 2 /\ number >= 2

(* ------------------------------- C2 ------------------------------------- *)
\* C2: once an iteration has left the frontier empty, nothing is ever echoed
\* and the call cannot end successfully: it is either still running (and then
\* has a step to take) or has ended with an exception.
C2_EmptyFrontierFails ==
  starved =>
    /\ stdout = <<>>
    /\ pc \in {"loop", "expand", "error"}
    /\ pc = "error" => exception \in {"IndexError", "PredictError"}
    /\ pc # "error" => ENABLED Next

C2_Witness ==
  starved /\ pc = "error" /\ exception = "IndexError" /\ Len(queries) >= 2

(* ------------------------------- C3 ------------------------------------- *)
\* C3: a call with number < 1 or an empty context issues no oracle query,
\* constructs no node, echoes nothing and can only end with an exception.
C3_InvalidRejected ==
  (number < 1 \/ context = <<>>) =>
    /\ queries = <<>>
    /\ nodes = <<>>
    /\ stdout = <<>>
    /\ pc \in {"start", "warmup", "error"}
    /\ pc = "error" => exception \in {"UsageError", "IndexError"}

C3_Witness ==
  pc = "error" /\ exception = "UsageError" /\ number < 1 /\ Len(context) >= 2

(* ------------------------------- C4 ------------------------------------- *)
\* C4: after every iteration of the beam loop the frontier holds at most
\* beam_width nodes, all constructed in that iteration, in ascending order of
\* cumulative cost, and its first node has the least cumulative cost of all
\* nodes constructed in that iteration.
C4_FrontierBoundedSorted ==
  (pc = "loop" /\ i >= 1) =>
    /\ Len(next_fringe) <= beam_width
    /\ \A k \in 1..Len(next_fringe) : next_fringe[k] \in StepCandidates
    /\ \A k \in 1..(Len(next_fringe) - 1) :
         nodes[next_fringe[k]].cum_cost <= nodes[next_fringe[k + 1]].cum_cost
    /\ StepCandidates # {} =>
         /\ next_fringe # <<>>
         /\ \A n \in StepCandidates :
              nodes[next_fringe[1]].cum_cost <= nodes[n].cum_cost

C4_Witness ==
  /\ pc = "loop"
  /\ i >= 2
  /\ beam_width = 2
  /\ Len(next_fringe) = beam_width
  /\ Cardinality(StepCandidates) > beam_width

(* ------------------------------- C5 ------------------------------------- *)
\* C5 (as stated): every character of the echoed line is in the alphabet.
C5_AlphabetAsStated ==
  pc = "done" => \A k \in 1..Len(Output) : Output[k] \in Alphabet

\* C5 (amended): every character echoed after the context is in the alphabet;
\* the context is echoed as given, so the whole line is within the alphabet
\* whenever the context is.
C5_GeneratedInAlphabet ==
  pc = "done" =>
    /\ \A k \in 1..Len(Generated) : Generated[k] \in Alphabet
    /\ (\A k \in 1..Len(context) : context[k] \in Alphabet)
         => \A k \in 1..Len(Output) : Output[k] \in Alphabet

C5_Witness ==
  /\ pc = "done"
  /\ Len(Generated) = 2
  /\ \E k \in 1..Len(context) : context[k] \notin Alphabet

(* ------------------------------- C6 ------------------------------------- *)
\* C6: in every expansion an index becomes a child exactly when it is among
\* the TopK most probable indices, its probability is at least 1/256 and it
\* has a character.
C6_CandidateFilter ==
  expansion.done =>
    \A s \in Indices :
      s \in expansion.inserted <=>
        /\ s \in expansion.top
        /\ expansion.pred[s] * 256 >= PDenom
        /\ s \in DOMAIN mapping1

C8_WarmUp ==
  /\ pc = "warmup" => Len(queries) = i
  /\ \A k \in 1..Min(Len(queries), Len(context) - 1) :
       /\ queries[k].chars = <<context[k]>>
       /\ queries[k].states =
            <<IF k = 1 THEN None ELSE queries[k - 1].returned[1]>>
       /\ Len(queries[k].returned) = 1
  /\ (pc = "loop" /\ i = 0) =>
       /\ Len(queries) = Len(context) - 1
       /\ next_fringe = <<1>>
       /\ nodes = <<[parent |-> 0, value |-> context[Len(context)],
                     cost |-> 0, cum_cost |-> 0,
                     state |-> IF Len(context) = 1 THEN None
                               ELSE queries[Len(context) - 1].returned[1]]>>

C8_Witness == pc = "loop" /\ i = 0 /\ Len(context) = 3 /\ Len(queries) = 2

C10_StateOfOwnParent ==
  /\ [](\A n \in 1..Len(nodes) :
          /\ nodes[n].state = OracleState(ContextPrefix(context) \o PathBefore(n))
          /\ nodes[n].parent # 0 =>
               nodes[n].cost =
                 NegLog(OracleDist(nodes[nodes[n].parent].value,
                                   nodes[nodes[n].parent].state)
                          [mapping0[nodes[n].value]]))
  /\ [][\A n \in 1..Len(nodes) : Len(nodes') >= n /\ nodes'[n] = nodes[n]]_vars

C10_Witness ==
  /\ pc = "loop"
  /\ i = 2
  /\ Len(next_fringe) = 2
  /\ nodes[next_fringe[1]].parent # nodes[next_fringe[2]].parent

====
